---- MODULE Spec2Model ----
(***************************************************************************)
(* Model of src/router/search-posgres.router.js: the POST /query handler   *)
(* of the pgvector similarity-search router, the module-level cache of     *)
(* collection names, and the Postgres tables the handler queries.          *)
(*                                                                         *)
(* Each action is one run of handler code between two awaits.  Nullable    *)
(* SQL / JS values are options: <<>> is NULL / null, <<v>> is the value v. *)
(* A request body is a record holding only the JSON fields that were sent, *)
(* so a destructuring default applies exactly when the field is absent.    *)
(***************************************************************************)
EXTENDS Integers, Sequences, FiniteSets, TLC

VARIABLES
    validCollections,   \* line 28: the module-level cache, NULL or <<list of names>>
    appSequelize,       \* app.get('sequelize') is set (unnamed/part_000 line 9)
    collectionTable,    \* langchain_pg_collection: sequence of [name, uuid] rows
    embeddingTable,     \* langchain_pg_embedding: set of rows
    reqs                \* the requests in flight, one record per connection slot

vars == <<validCollections, appSequelize, collectionTable, embeddingTable, reqs>>

NULL == <<>>
Some(v) == <<v>>

(***************************************************************************)
(* Bounds of the model.                                                    *)
(***************************************************************************)
MaxK == 2
NumSlots == 2
Slots == 1..NumSlots

(***************************************************************************)
(* pgVectorConfig, lines 6-25.                                             *)
(***************************************************************************)
pgVectorConfig ==
    [ tableName |-> "langchain_pg_embedding",
      collectionTableName |-> "langchain_pg_collection",
      columns |-> [ idColumnName |-> "id",
                    vectorColumnName |-> "embedding",
                    contentColumnName |-> "document",
                    metadataColumnName |-> "cmetadata" ],
      schemaName |-> NULL,
      extensionSchemaName |-> NULL,
      distanceStrategy |-> "cosine" ]

DefaultK == 4
DefaultCollectionName == "langchain"

\* lines 48-52
getComputedTableName ==
    IF pgVectorConfig.schemaName = NULL
    THEN pgVectorConfig.tableName
    ELSE "\"" \o pgVectorConfig.schemaName[1] \o "\".\"" \o pgVectorConfig.tableName \o "\""

\* lines 58-62
getComputedCollectionTableName ==
    IF pgVectorConfig.schemaName = NULL
    THEN pgVectorConfig.collectionTableName
    ELSE "\"" \o pgVectorConfig.schemaName[1] \o "\".\"" \o pgVectorConfig.collectionTableName \o "\""

\* lines 68-87: [ok |-> TRUE, value |-> operator] or [ok |-> FALSE, message |-> ...]
OperatorFor(strategy) ==
    CASE strategy = "cosine" -> Some("<=>")
      [] strategy = "innerProduct" -> Some("<#>")
      [] strategy = "euclidean" -> Some("<->")
      [] OTHER -> NULL

getComputedOperatorString ==
    LET operator == OperatorFor(pgVectorConfig.distanceStrategy) IN
    IF operator = NULL
    THEN [ok |-> FALSE,
          message |-> "Unknown distance strategy: " \o pgVectorConfig.distanceStrategy]
    ELSE [ok |-> TRUE,
          value |-> IF pgVectorConfig.extensionSchemaName # NULL
                    THEN "OPERATOR(" \o pgVectorConfig.extensionSchemaName[1]
                             \o "." \o operator[1] \o ")"
                    ELSE operator[1]]

(***************************************************************************)
(* Array.prototype.join on strings and on integers.                        *)
(***************************************************************************)
RECURSIVE Join(_, _)
Join(items, sep) ==
    IF items = <<>> THEN ""
    ELSE IF Len(items) = 1 THEN items[1]
    ELSE items[1] \o sep \o Join(Tail(items), sep)

NumberTexts(numbers) == [i \in 1..Len(numbers) |-> ToString(numbers[i])]

\* line 191: `[${query.join(",")}]`
EmbeddingString(query) == "[" \o Join(NumberTexts(query), ",") \o "]"

(***************************************************************************)
(* The database.  A row of langchain_pg_embedding is                       *)
(*   [id, collection_id, document, cmetadata, embedding]                   *)
(* with document, cmetadata and embedding nullable.  A cmetadata value is a *)
(* JSONB object: a record whose fields are JSON strings                     *)
(* [type |-> "string", s |-> ...] or JSON arrays of strings                 *)
(* [type |-> "array", items |-> <<...>>].                                   *)
(***************************************************************************)
JsonString(s) == [type |-> "string", s |-> s]
JsonArray(items) == [type |-> "array", items |-> items]

\* The embeddings are unit vectors, for which the cosine distance 1 - cos is
\* exactly 1 - (a . b).
Vectors == { <<1, 0>>, <<0, 1>>, <<-1, 0>>, <<0, -1>> }

Dot(a, b) == a[1] * b[1] + a[2] * b[2]

\* pgvector's <=> on two unit vectors
CosineDistance(a, b) == 1 - Dot(a, b)

\* pgvector's text -> vector input conversion: the vector whose text form is
\* the given text, NULL (an "invalid input syntax" error) when there is none.
ParseVector(text) ==
    IF \E v \in Vectors : EmbeddingString(v) = text
    THEN Some(CHOOSE v \in Vectors : EmbeddingString(v) = text)
    ELSE NULL

\* jsonb ->> 'key': the field as text, NULL when the object or the field is missing.
JsonFieldText(cmetadata, key) ==
    IF cmetadata = NULL \/ key \notin DOMAIN cmetadata[1] THEN NULL
    ELSE LET v == cmetadata[1][key] IN
         IF v.type = "string" THEN Some(v.s)
         ELSE Some("[" \o Join([i \in 1..Len(v.items) |-> "\"" \o v.items[i] \o "\""], ", ") \o "]")

\* jsonb -> 'key' ?| array[...]: some listed string is an element of the array
\* under key (or is the string under key).
JsonFieldExistsAny(cmetadata, key, texts) ==
    IF cmetadata = NULL \/ key \notin DOMAIN cmetadata[1] THEN FALSE
    ELSE LET v == cmetadata[1][key] IN
         IF v.type = "string" THEN v.s \in texts
         ELSE \E i \in 1..Len(v.items) : v.items[i] \in texts

Range(seq) == { seq[i] : i \in 1..Len(seq) }

(***************************************************************************)
(* Sequelize named replacements: the value bound to placeholder :name.     *)
(***************************************************************************)
Bound(replacements, name) == replacements[name]

\* One WHERE condition of the similarity query on one row.
ClauseHolds(clause, replacements, row) ==
    CASE clause.kind = "collection" ->
            row.collection_id = Bound(replacements, "collectionId")
      [] clause.kind = "equals" ->
            JsonFieldText(row.cmetadata, clause.key)
                = Some(Bound(replacements, clause.placeholders[1]))
      [] clause.kind = "in" ->
            \E i \in 1..Len(clause.placeholders) :
                JsonFieldText(row.cmetadata, clause.key)
                    = Some(Bound(replacements, clause.placeholders[i]))
      [] clause.kind = "contains" ->
            JsonFieldExistsAny(row.cmetadata, clause.key,
                { Bound(replacements, clause.placeholders[i]) :
                      i \in 1..Len(clause.placeholders) })

\* "embedding" <=> :embeddingString as "_distance"
RowDistance(row, vector) ==
    IF row.embedding = NULL THEN NULL ELSE Some(CosineDistance(row.embedding[1], vector))

WithDistance(row, vector) ==
    [ id |-> row.id, collection_id |-> row.collection_id, document |-> row.document,
      cmetadata |-> row.cmetadata, embedding |-> row.embedding,
      _distance |-> RowDistance(row, vector) ]

\* ORDER BY "_distance" ASC | DESC: ASC puts NULL last, DESC puts it first.
Before(order, d1, d2) ==
    IF order = "ASC"
    THEN (d1 # NULL /\ (d2 = NULL \/ d1[1] <= d2[1])) \/ (d1 = NULL /\ d2 = NULL)
    ELSE (d1 = NULL) \/ (d2 # NULL /\ d1[1] >= d2[1])

\* Every order in which Postgres may return the rows: ties come in any order.
RECURSIVE Orderings(_, _)
Orderings(rows, order) ==
    IF rows = {} THEN { <<>> }
    ELSE UNION { { <<r>> \o rest : rest \in Orderings(rows \ {r}, order) } :
                 r \in { m \in rows : \A o \in rows : Before(order, m._distance, o._distance) } }

TakeFirst(seq, n) == SubSeq(seq, 1, IF n < Len(seq) THEN n ELSE Len(seq))

\* The rows the WHERE clause keeps.
Matching(table, statement) ==
    { row \in table :
        \A i \in 1..Len(statement.where) :
            ClauseHolds(statement.where[i], statement.replacements, row) }

\* The statement fails in Postgres: the vector text does not parse, the LIMIT
\* is negative, or an IN () / array[] list is empty.
StatementError(statement) ==
    IF \E i \in 1..Len(statement.where) :
           statement.where[i].kind \in {"in", "contains"}
           /\ statement.where[i].placeholders = <<>>
    THEN Some("syntax error at or near \")\"")
    ELSE IF ParseVector(Bound(statement.replacements, "embeddingString")) = NULL
    THEN Some("invalid input syntax for type vector")
    ELSE IF Bound(statement.replacements, "k") < 0
    THEN Some("LIMIT must not be negative")
    ELSE NULL

\* The possible results of the similarity query: sequences of rows.
ExecuteSearch(table, statement) ==
    LET vector == ParseVector(Bound(statement.replacements, "embeddingString"))[1]
        rows == { WithDistance(row, vector) : row \in Matching(table, statement) }
    IN { TakeFirst(ordered, Bound(statement.replacements, "k")) :
             ordered \in Orderings(rows, statement.order) }

\* SELECT name FROM langchain_pg_collection
SelectNames(table) == [i \in 1..Len(table) |-> [name |-> table[i].name]]

\* SELECT uuid FROM ... WHERE name = :collectionName
SelectUuid(table, collectionName) ==
    SelectSeq([i \in 1..Len(table) |-> table[i]], LAMBDA row : row.name = collectionName)

(***************************************************************************)
(* The request handler, lines 118-322.                                     *)
(***************************************************************************)
\* A destructuring default, lines 121-127: the default when the field is absent.
Field(body, name, default) == IF name \in DOMAIN body THEN body[name] ELSE default

Put(object, name, value) ==
    [n \in DOMAIN object \cup {name} |-> IF n = name THEN value ELSE object[n]]

\* The catch block answering without the caught Error's message.
Catch_HidesMessage(message) ==
    [ status |-> 500,
      body |-> [error |-> "Internal server error", message |-> "Internal server error"] ]

\* lines 314-321
Catch(message) ==
    [ status |-> 500,
      body |-> [error |-> "Internal server error", message |-> message] ]

\* lines 177-179
CollectionNotFound(collectionName, collections) ==
    [ status |-> 404,
      body |-> [error |-> "Collection \"" \o collectionName
                           \o "\" not found. Valid collections are: "
                           \o Join(collections, ", ")] ]

\* lines 185-187
IdNotRetrieved(collectionName) ==
    [ status |-> 404,
      body |-> [error |-> "Collection \"" \o collectionName
                           \o "\" exists but ID could not be retrieved."] ]

\* res.json(results), lines 271 and 312
Ok(results) == [status |-> 200, body |-> results]

\* getValidCollections without its null test: every request fetches.
CacheIsEmpty_Always(cache) == TRUE

\* line 36
CacheIsEmpty(cache) == cache = NULL

\* The map of line 39 stopping one row short.
NamesOf_DropsLast(results) == [i \in 1..(Len(results) - 1) |-> results[i].name]

\* line 39
NamesOf(results) == [i \in 1..Len(results) |-> results[i].name]

\* The handler without the check of line 176.
CollectionIsValid_Always(collections, collectionName) == TRUE

\* line 176
CollectionIsValid(collections, collectionName) == collectionName \in Range(collections)

\* line 106: results ? results.uuid : null
FirstUuid(results) == IF results = <<>> THEN NULL ELSE Some(results[1].uuid)

\* lines 211, 221: value.map((_, idx) => `${key}_in_${idx}`)
Placeholders(key, infix, values) ==
    [i \in 1..Len(values) |-> key \o infix \o ToString(i - 1)]

\* lines 215-217, 225-227: value.forEach((val, idx) => queryParams[...] = val)
RECURSIVE PutAll(_, _, _)
PutAll(queryParams, names, values) ==
    IF names = <<>> THEN queryParams
    ELSE PutAll(Put(queryParams, names[1], values[1]), Tail(names), Tail(values))

\* lines 209-233: the clauses one filter entry pushes
EntryClauses(entry) ==
    IF entry.value.type = "object"
    THEN (IF "in" \in DOMAIN entry.value
          THEN << [kind |-> "in", key |-> entry.key,
                   placeholders |-> Placeholders(entry.key, "_in_", entry.value.in)] >>
          ELSE << >>)
         \o
         (IF "arrayContains" \in DOMAIN entry.value
          THEN << [kind |-> "contains", key |-> entry.key,
                   placeholders |-> Placeholders(entry.key, "_contains_",
                                                 entry.value.arrayContains)] >>
          ELSE << >>)
    ELSE << [kind |-> "equals", key |-> entry.key, placeholders |-> <<entry.key>>] >>

\* lines 209-233: the parameters one filter entry sets
EntryParams(queryParams, entry) ==
    IF entry.value.type = "object"
    THEN LET afterIn ==
                 IF "in" \in DOMAIN entry.value
                 THEN PutAll(queryParams,
                             Placeholders(entry.key, "_in_", entry.value.in),
                             entry.value.in)
                 ELSE queryParams
         IN IF "arrayContains" \in DOMAIN entry.value
            THEN PutAll(afterIn,
                        Placeholders(entry.key, "_contains_", entry.value.arrayContains),
                        entry.value.arrayContains)
            ELSE afterIn
    ELSE Put(queryParams, entry.key, entry.value.s)

\* lines 208-234: for (const [key, value] of Object.entries(filter))
RECURSIVE FilterClauses(_)
FilterClauses(filter) ==
    IF filter = <<>> THEN <<>>
    ELSE EntryClauses(filter[1]) \o FilterClauses(Tail(filter))

RECURSIVE FilterParams(_, _)
FilterParams(queryParams, filter) ==
    IF filter = <<>> THEN queryParams
    ELSE FilterParams(EntryParams(queryParams, filter[1]), Tail(filter))

\* lines 196, 212, 222, 231: the text of one WHERE clause
ColonList(placeholders) ==
    Join([i \in 1..Len(placeholders) |-> ":" \o placeholders[i]], ",")

ClauseText(clause) ==
    CASE clause.kind = "collection" -> "collection_id = :collectionId"
      [] clause.kind = "in" ->
            pgVectorConfig.columns.metadataColumnName \o "->>'" \o clause.key
                \o "' IN (" \o ColonList(clause.placeholders) \o ")"
      [] clause.kind = "contains" ->
            pgVectorConfig.columns.metadataColumnName \o "->'" \o clause.key
                \o "' ?| array[" \o ColonList(clause.placeholders) \o "]"
      [] clause.kind = "equals" ->
            pgVectorConfig.columns.metadataColumnName \o "->>'" \o clause.key
                \o "' = :" \o clause.placeholders[1]

\* The statement ordering by descending distance.
OrderDirection_Desc == "DESC"

\* lines 243 and 280
OrderDirection == "ASC"

\* lines 239-245 and 276-282 (white space normalised to single blanks)
QueryString(operator, whereClause) ==
    "SELECT *, \"" \o pgVectorConfig.columns.vectorColumnName \o "\" " \o operator
        \o " :embeddingString as \"_distance\" FROM " \o getComputedTableName
        \o " " \o whereClause \o " ORDER BY \"_distance\" " \o OrderDirection
        \o " LIMIT :k;"

\* lines 248-251 and 285-292: what sequelize.query is called with
Statement(whereClauses, replacements) ==
    [ text |-> QueryString(getComputedOperatorString.value,
                   "WHERE " \o Join([i \in 1..Len(whereClauses) |->
                                        ClauseText(whereClauses[i])], " AND ")),
      where |-> whereClauses,
      order |-> OrderDirection,
      replacements |-> replacements ]

\* lines 201-205 and 286-290
BaseParams(embeddingString, k, collectionId) ==
    [embeddingString |-> embeddingString, k |-> k, collectionId |-> collectionId]

\* lines 190-251 and 272-292: the statement the handler sends, or the error thrown
BuildStatement(body, collectionId) ==
    LET k == Field(body, "k", DefaultK)
        filter == Field(body, "filter", <<>>)
    IN IF "query" \notin DOMAIN body
       THEN [ok |-> FALSE,
             message |-> "Cannot read properties of undefined (reading 'join')"]
       ELSE IF ~getComputedOperatorString.ok
       THEN [ok |-> FALSE, message |-> getComputedOperatorString.message]
       ELSE LET embeddingString == EmbeddingString(body.query)
                collectionClause == << [kind |-> "collection"] >>
            IN [ok |-> TRUE,
                statement |->
                    IF Len(filter) > 0
                    THEN Statement(collectionClause \o FilterClauses(filter),
                                   FilterParams(BaseParams(embeddingString, k, collectionId),
                                                filter))
                    ELSE Statement(collectionClause,
                                   BaseParams(embeddingString, k, collectionId))]

\* lines 256 and 297
KeepRow(doc) == doc._distance # NULL /\ doc.document # NULL

\* The loop without lines 263-265: includeEmbedding is ignored.
WithEmbedding_Never(metadata, doc, includeEmbedding) == metadata

\* lines 263-265 and 304-306
WithEmbedding(metadata, doc, includeEmbedding) ==
    IF includeEmbedding
    THEN Some(Put(metadata[1], pgVectorConfig.columns.vectorColumnName, doc.embedding[1]))
    ELSE metadata

\* lines 257-267 and 298-308: the [document, distance] pair of one kept row;
\* metadata is null (NULL) when the row's cmetadata is.
ResultPair(doc, includeEmbedding) ==
    << [ pageContent |-> doc.document[1],
         metadata |-> WithEmbedding(doc.cmetadata, doc, includeEmbedding),
         id |-> doc.id ],
       doc._distance[1] >>

\* line 264 throws a TypeError on a kept row whose cmetadata is null
SetsOnNull(documents, includeEmbedding) ==
    includeEmbedding /\ \E i \in 1..Len(documents) :
        KeepRow(documents[i]) /\ documents[i].cmetadata = NULL

\* lines 254-269 and 295-310
RECURSIVE ProcessResults(_, _)
ProcessResults(documents, includeEmbedding) ==
    IF documents = <<>> THEN <<>>
    ELSE (IF KeepRow(documents[1])
          THEN << ResultPair(documents[1], includeEmbedding) >>
          ELSE << >>)
         \o ProcessResults(Tail(documents), includeEmbedding)

(***************************************************************************)
(* Request bodies.  A filter is the sequence Object.entries(filter) of      *)
(* [key, value] entries; a value is a JSON string or a JSON object          *)
(* [type |-> "object", ...] holding the operator fields that were sent.     *)
(***************************************************************************)
Entry(key, value) == [key |-> key, value |-> value]

Filters ==
    { << Entry("tag", JsonString("a")) >>,
      << Entry("tag", JsonString("b")) >>,
      << Entry("collectionId", JsonString("u2")) >>,
      << Entry("tag", [type |-> "object", in |-> <<"a", "b">>]) >>,
      << Entry("tag", [type |-> "object", in |-> <<>>]) >>,
      << Entry("tags", [type |-> "object", arrayContains |-> <<"x">>]) >>,
      << Entry("tag", [type |-> "object", gte |-> "b"]) >>,
      << Entry("tag", JsonString("a")),
         Entry("tags", [type |-> "object", arrayContains |-> <<"x", "y">>]) >> }

\* The body {}: no field was sent.
EmptyBody == [n \in {} |-> n]

\* The bodies with field name absent or set to one of the values.
WithOptional(bodies, name, values) ==
    bodies \cup { Put(b, name, v) : b \in bodies, v \in values }

Bodies ==
    LET b0 == WithOptional({EmptyBody}, "collectionName", {"docs", "ghost"})
        b1 == WithOptional(b0, "query", { <<>>, <<1, 0>>, <<0, 1>> })
        b2 == WithOptional(b1, "k", (-1)..MaxK)
        b3 == WithOptional(b2, "filter", Filters)
    IN WithOptional(b3, "includeEmbedding", {TRUE})

\* The bodies of the concurrent specifications: every collection name, one
\* query vector, k = 1 or a k Postgres rejects.
RaceBodies ==
    WithOptional({ [query |-> <<1, 0>>, k |-> 1] }, "collectionName", {"docs", "ghost"})
        \cup { [query |-> <<1, 0>>, k |-> -1] }

(***************************************************************************)
(* The state of one request: the handler's position (pc), its locals, the  *)
(* queries it has issued, the cache as it was when the request arrived     *)
(* (cacheAtStart) and, once it has answered, its response, the Error the   *)
(* catch block caught (thrown) and what went wrong (failure).              *)
(***************************************************************************)
IdleReq ==
    [ pc |-> "idle", body |-> EmptyBody, issued |-> {},
      cacheAtStart |-> NULL, collections |-> NULL, collectionId |-> NULL,
      statement |-> NULL, documents |-> NULL,
      failure |-> "none", thrown |-> NULL, response |-> NULL ]

NewReq(body, cache) ==
    [IdleReq EXCEPT !.pc = "start", !.body = body, !.cacheAtStart = cache]

Respond(req, failure, response) ==
    [req EXCEPT !.pc = "done", !.failure = failure, !.response = Some(response)]

\* throw ... caught at line 314
Throw(req, failure, message) ==
    [req EXCEPT !.pc = "done", !.failure = failure, !.thrown = Some(message),
                !.response = Some(Catch(message))]

CollectionName(req) == Field(req.body, "collectionName", DefaultCollectionName)

\* lines 176-183: the validity check, then the collection-id lookup is sent
AfterCollections(req, collections) ==
    IF ~CollectionIsValid(collections, CollectionName(req))
    THEN Respond([req EXCEPT !.collections = Some(collections)], "unknown collection",
                 CollectionNotFound(CollectionName(req), collections))
    ELSE [req EXCEPT !.pc = "lookup", !.collections = Some(collections),
                     !.issued = @ \cup {"uuid"}]

\* lines 119-133, 175, 36-38: the handler up to its first await
Begin(req, sequelize, cache) ==
    IF ~sequelize
    THEN Throw(req, "no sequelize", "Sequelize instance not found")
    ELSE IF CacheIsEmpty(cache)
    THEN [req EXCEPT !.pc = "fetch", !.issued = @ \cup {"names"}]
    ELSE AfterCollections(req, cache[1])

\* lines 184-251 / 285: the collection id is back; the similarity query is sent
AfterLookup(req, collectionId) ==
    IF collectionId = NULL
    THEN Respond(req, "collection id", IdNotRetrieved(CollectionName(req)))
    ELSE LET built == BuildStatement(req.body, collectionId[1]) IN
         IF ~built.ok
         THEN Throw([req EXCEPT !.collectionId = collectionId],
                    IF "query" \notin DOMAIN req.body THEN "query vector"
                    ELSE "distance strategy",
                    built.message)
         ELSE [req EXCEPT !.pc = "search", !.collectionId = collectionId,
                          !.statement = Some(built.statement),
                          !.issued = @ \cup {"search"}]

\* lines 253-271 / 294-312: the rows are back; the response is shaped and sent
AfterSearch(req, documents) ==
    LET includeEmbedding == Field(req.body, "includeEmbedding", FALSE) IN
    IF SetsOnNull(documents, includeEmbedding)
    THEN Throw([req EXCEPT !.documents = Some(documents)], "null metadata",
               "Cannot set properties of null (setting 'embedding')")
    ELSE Respond([req EXCEPT !.documents = Some(documents)], "none",
                 Ok(ProcessResults(documents, includeEmbedding)))

\* The message of a query that fails for a reason outside the statement.
ConnectionError == "Connection terminated unexpectedly"

(***************************************************************************)
(* The tables.  Collection names have fixed uuids.                         *)
(***************************************************************************)
UuidOf(name) == IF name = "langchain" THEN "u1" ELSE "u2"

InitialCollections ==
    << [name |-> "langchain", uuid |-> "u1"], [name |-> "docs", uuid |-> "u2"] >>

Row(id, collection_id, document, cmetadata, embedding) ==
    [ id |-> id, collection_id |-> collection_id, document |-> document,
      cmetadata |-> cmetadata, embedding |-> embedding ]

InitialEmbeddings ==
    { Row("e1", "u1", Some("alpha"),
          Some([tag |-> JsonString("a"), tags |-> JsonArray(<<"x">>)]), Some(<<1, 0>>)),
      Row("e2", "u1", NULL, Some([tag |-> JsonString("a")]), Some(<<1, 0>>)),
      Row("e3", "u1", Some("gamma"),
          Some([tag |-> JsonString("b"), tags |-> JsonArray(<<"y">>)]), Some(<<0, 1>>)),
      Row("e4", "u1", Some("delta"), NULL, Some(<<-1, 0>>)),
      Row("e5", "u1", Some("epsilon"), Some([tag |-> JsonString("a")]), NULL),
      Row("e6", "u2", Some("zeta"),
          Some([tag |-> JsonString("a"), collectionId |-> JsonString("u2")]),
          Some(<<1, 0>>)) }

\* The collections that are dropped and created again while the server runs.
Droppable == {"docs"}

(***************************************************************************)
(* Actions.                                                                *)
(***************************************************************************)
Init ==
    /\ validCollections = NULL
    /\ appSequelize = FALSE
    /\ collectionTable = InitialCollections
    /\ embeddingTable = InitialEmbeddings
    /\ reqs = [s \in Slots |-> IdleReq]

\* unnamed/part_000 line 9: app.set('sequelize', sequelize)
AppSet ==
    /\ ~appSequelize
    /\ appSequelize' = TRUE
    /\ UNCHANGED <<validCollections, collectionTable, embeddingTable, reqs>>

\* DELETE FROM langchain_pg_collection WHERE name = ...; its embeddings cascade
DropCollection(name) ==
    /\ \E i \in 1..Len(collectionTable) : collectionTable[i].name = name
    /\ collectionTable' = SelectSeq(collectionTable, LAMBDA row : row.name # name)
    /\ embeddingTable' = { row \in embeddingTable : row.collection_id # UuidOf(name) }
    /\ UNCHANGED <<validCollections, appSequelize, reqs>>

\* INSERT INTO langchain_pg_collection
CreateCollection(name) ==
    /\ \A i \in 1..Len(collectionTable) : collectionTable[i].name # name
    /\ collectionTable' = Append(collectionTable, [name |-> name, uuid |-> UuidOf(name)])
    /\ UNCHANGED <<validCollections, appSequelize, embeddingTable, reqs>>

\* A POST /query arrives on connection s: lines 118-133 and 175, and on a
\* cache hit lines 176-183 (an await of an already-returned value resumes
\* before any other request's database reply is handled).
Start(s, body) ==
    /\ reqs[s].pc = "idle"
    /\ reqs' = [reqs EXCEPT ![s] = Begin(NewReq(body, validCollections), appSequelize, validCollections)]
    /\ UNCHANGED <<validCollections, appSequelize, collectionTable, embeddingTable>>

\* line 38 resolves: lines 39-41 and 176-183.  The SELECT reads the table
\* as it is when the reply is handled.
FetchReturns(s) ==
    /\ reqs[s].pc = "fetch"
    /\ LET names == NamesOf(SelectNames(collectionTable)) IN
       /\ validCollections' = Some(names)
       /\ reqs' = [reqs EXCEPT ![s] = AfterCollections(@, names)]
    /\ UNCHANGED <<appSequelize, collectionTable, embeddingTable>>

\* line 38 rejects: line 39 is skipped, the catch block answers
FetchFails(s) ==
    /\ reqs[s].pc = "fetch"
    /\ reqs' = [reqs EXCEPT ![s] = Throw(@, "database error", ConnectionError)]
    /\ UNCHANGED <<validCollections, appSequelize, collectionTable, embeddingTable>>

\* line 101 resolves: lines 106, 184-251 / 285
LookupReturns(s) ==
    /\ reqs[s].pc = "lookup"
    /\ reqs' = [reqs EXCEPT ![s] =
                   AfterLookup(@, FirstUuid(SelectUuid(collectionTable, CollectionName(@))))]
    /\ UNCHANGED <<validCollections, appSequelize, collectionTable, embeddingTable>>

LookupFails(s) ==
    /\ reqs[s].pc = "lookup"
    /\ reqs' = [reqs EXCEPT ![s] = Throw(@, "database error", ConnectionError)]
    /\ UNCHANGED <<validCollections, appSequelize, collectionTable, embeddingTable>>

\* line 248 / 285 resolves: lines 253-271 / 294-312
SearchReturns(s) ==
    /\ reqs[s].pc = "search"
    /\ StatementError(reqs[s].statement[1]) = NULL
    /\ \E documents \in ExecuteSearch(embeddingTable, reqs[s].statement[1]) :
           reqs' = [reqs EXCEPT ![s] = AfterSearch(@, documents)]
    /\ UNCHANGED <<validCollections, appSequelize, collectionTable, embeddingTable>>

\* line 248 / 285 rejects: Postgres refuses the statement
SearchRejected(s) ==
    /\ reqs[s].pc = "search"
    /\ StatementError(reqs[s].statement[1]) # NULL
    /\ reqs' = [reqs EXCEPT ![s] =
                   Throw(@, IF ParseVector(Bound(@.statement[1].replacements,
                                                 "embeddingString")) = NULL
                            THEN "query vector" ELSE "statement",
                         StatementError(@.statement[1])[1])]
    /\ UNCHANGED <<validCollections, appSequelize, collectionTable, embeddingTable>>

SearchFails(s) ==
    /\ reqs[s].pc = "search"
    /\ reqs' = [reqs EXCEPT ![s] = Throw(@, "database error", ConnectionError)]
    /\ UNCHANGED <<validCollections, appSequelize, collectionTable, embeddingTable>>

\* The response has gone out and connection s is free again.
Finish(s) ==
    /\ reqs[s].pc = "done"
    /\ reqs' = [reqs EXCEPT ![s] = IdleReq]
    /\ UNCHANGED <<validCollections, appSequelize, collectionTable, embeddingTable>>

Environment ==
    \/ AppSet
    \/ \E name \in Droppable : DropCollection(name)
    \/ \E name \in Droppable : CreateCollection(name)

Handler(s) ==
    \/ FetchReturns(s)
    \/ FetchFails(s)
    \/ LookupReturns(s)
    \/ LookupFails(s)
    \/ SearchReturns(s)
    \/ SearchRejected(s)
    \/ SearchFails(s)
    \/ Finish(s)

(***************************************************************************)
(* Spec: requests of every shape, one at a time, against a database whose  *)
(* collections come and go.                                                *)
(***************************************************************************)
Next ==
    \/ Environment
    \/ \E body \in Bodies : Start(1, body)
    \/ Handler(1)

Spec == Init /\ [][Next]_vars

(***************************************************************************)
(* SpecRace: NumSlots requests interleaved at their awaits, while          *)
(* collections are dropped.  SpecStatic: the same with the tables fixed.   *)
(***************************************************************************)
NextStatic ==
    \/ AppSet
    \/ \E s \in Slots, body \in RaceBodies : Start(s, body)
    \/ \E s \in Slots : Handler(s)

NextRace ==
    \/ AppSet
    \/ \E name \in Droppable : DropCollection(name)
    \/ \E s \in Slots, body \in RaceBodies : Start(s, body)
    \/ \E s \in Slots : Handler(s)

SpecStatic == Init /\ [][NextStatic]_vars

SpecRace == Init /\ [][NextRace]_vars

(***************************************************************************)
(* What the claims speak about.                                            *)
(***************************************************************************)
Answered(s) == reqs[s].pc = "done"
Succeeded(s) == Answered(s) /\ reqs[s].response[1].status = 200
ResponseOf(s) == reqs[s].response[1]
FilterOf(s) == Field(reqs[s].body, "filter", <<>>)
KOf(s) == Field(reqs[s].body, "k", DefaultK)
IncludeEmbeddingOf(s) == Field(reqs[s].body, "includeEmbedding", FALSE)
TableNames == [i \in 1..Len(collectionTable) |-> collectionTable[i].name]
Min(a, b) == IF a < b THEN a ELSE b

\* The condition a filter entry asks of a row: equality for a scalar, membership
\* for {in: [...]}, an array with a listed element for {arrayContains: [...]}.
EntryHolds(entry, row) ==
    IF entry.value.type = "string"
    THEN JsonFieldText(row.cmetadata, entry.key) = Some(entry.value.s)
    ELSE /\ "in" \in DOMAIN entry.value =>
                \E v \in Range(entry.value.in) :
                    JsonFieldText(row.cmetadata, entry.key) = Some(v)
         /\ "arrayContains" \in DOMAIN entry.value =>
                /\ row.cmetadata # NULL
                /\ entry.key \in DOMAIN row.cmetadata[1]
                /\ row.cmetadata[1][entry.key].type = "array"
                /\ \E v \in Range(entry.value.arrayContains) :
                       v \in Range(row.cmetadata[1][entry.key].items)

\* The rows of the requested collection that satisfy the request's filter.
RowsAskedFor(s) ==
    { row \in embeddingTable :
        /\ row.collection_id = reqs[s].collectionId[1]
        /\ \A i \in 1..Len(FilterOf(s)) : EntryHolds(FilterOf(s)[i], row) }

\* d1 is no farther than d2, a NULL distance being the farthest
NoFarther(d1, d2) == d2 = NULL \/ (d1 # NULL /\ d1[1] <= d2[1])

\* The rows the database returned that have a distance and a content
KeptRows(s) ==
    SelectSeq(reqs[s].documents[1],
              LAMBDA doc : doc._distance # NULL /\ doc.document # NULL)

\* C1: a request whose collectionName (default 'langchain') is not in the list
\* of valid collection names the handler obtained is answered 404 with an error
\* body, and has issued neither the collection-id lookup nor the similarity
\* search.
C1_UnknownCollectionIs404 ==
    \A s \in Slots :
        (reqs[s].collections # NULL
         /\ CollectionName(reqs[s]) \notin Range(reqs[s].collections[1]))
        => /\ Answered(s)
           /\ ResponseOf(s).status = 404
           /\ DOMAIN ResponseOf(s).body = {"error"}
           /\ reqs[s].issued \cap {"uuid", "search"} = {}

C1_Witness ==
    \E s \in Slots :
        /\ Answered(s)
        /\ reqs[s].collections # NULL
        /\ CollectionName(reqs[s]) = "ghost"
        /\ "ghost" \notin Range(reqs[s].collections[1])
        /\ ResponseOf(s).status = 404

\* The body of the generic internal-error response for the Error caught
InternalError(s) ==
    /\ reqs[s].thrown # NULL
    /\ ResponseOf(s).status = 500
    /\ ResponseOf(s).body =
           [error |-> "Internal server error", message |-> reqs[s].thrown[1]]

\* C2 (as stated): every failure of a request other than an unknown collection
\* name, a collection id that cannot be retrieved included, is answered 500
\* with {error: 'Internal server error', message: <the error's message>}.
C2_Original ==
    \A s \in Slots :
        (Answered(s) /\ reqs[s].failure \notin {"none", "unknown collection"})
        => InternalError(s)

\* C2 (amended): every failure other than an unknown collection name or a
\* collection id that cannot be retrieved is answered 500 with
\* {error: 'Internal server error', message: <the error's message>}; a
\* collection id that cannot be retrieved is answered 404 with an error body.
C2_Amended ==
    \A s \in Slots :
        Answered(s) =>
            /\ reqs[s].failure \notin {"none", "unknown collection", "collection id"}
                   => InternalError(s)
            /\ reqs[s].failure = "collection id"
                   => /\ ResponseOf(s).status = 404
                      /\ DOMAIN ResponseOf(s).body = {"error"}
            /\ reqs[s].failure = "none" => ResponseOf(s).status = 200

C2_Witness ==
    \E s \in Slots :
        /\ Answered(s)
        /\ reqs[s].failure = "query vector"
        /\ "query" \notin DOMAIN reqs[s].body
        /\ ResponseOf(s).status = 500
        /\ ResponseOf(s).body.message
               = "Cannot read properties of undefined (reading 'join')"

\* C3: a successful response holds exactly min(k, n) entries, n the number of
\* rows of the collection that satisfy the filter, and they are the rows of
\* smallest distance among those n rows.
C3_TopK ==
    \A s \in Slots :
        Succeeded(s) =>
            LET ids == { ResponseOf(s).body[i][1].id : i \in 1..Len(ResponseOf(s).body) }
                rows == RowsAskedFor(s)
                vector == ParseVector(EmbeddingString(reqs[s].body.query))[1]
            IN /\ Len(ResponseOf(s).body) = Min(KOf(s), Cardinality(rows))
               /\ ids \subseteq { row.id : row \in rows }
               /\ \A in \in rows, out \in rows :
                      (in.id \in ids /\ out.id \notin ids)
                      => NoFarther(RowDistance(in, vector), RowDistance(out, vector))

\* C4: the entries of a successful response are in non-decreasing distance,
\* and they are the kept rows in the order the database returned them.
C4_SortedByDistance ==
    \A s \in Slots :
        Succeeded(s) =>
            LET body == ResponseOf(s).body IN
            /\ \A i \in 1..Len(body), j \in 1..Len(body) :
                   i < j => body[i][2] <= body[j][2]
            /\ [i \in 1..Len(body) |-> body[i][1].id]
                   = [i \in 1..Len(KeptRows(s)) |-> KeptRows(s)[i].id]

C4_Witness ==
    \E s \in Slots :
        /\ Succeeded(s)
        /\ Len(ResponseOf(s).body) >= 3
        /\ ResponseOf(s).body[1][2] < ResponseOf(s).body[2][2]
        /\ ResponseOf(s).body[2][2] < ResponseOf(s).body[3][2]

\* C5: for every key of a non-empty filter the statement carries a condition
\* on that key, and every row of a successful response satisfies the key's
\* condition and belongs to the requested collection.
C5_FilterRestricts ==
    \A s \in Slots :
        Succeeded(s) =>
            \A i \in 1..Len(FilterOf(s)) :
                /\ \E c \in 1..Len(reqs[s].statement[1].where) :
                       /\ reqs[s].statement[1].where[c].kind # "collection"
                       /\ reqs[s].statement[1].where[c].key = FilterOf(s)[i].key
                /\ \A d \in 1..Len(reqs[s].documents[1]) :
                       /\ EntryHolds(FilterOf(s)[i], reqs[s].documents[1][d])
                       /\ reqs[s].documents[1][d].collection_id = reqs[s].collectionId[1]

\* The shape of a filter: per entry, whether the value is a scalar, and how
\* many values its in / arrayContains lists hold.
EntryShape(entry) ==
    IF entry.value.type = "string" THEN <<"scalar", 0, 0>>
    ELSE << "object",
            IF "in" \in DOMAIN entry.value THEN Len(entry.value.in) + 1 ELSE 0,
            IF "arrayContains" \in DOMAIN entry.value
            THEN Len(entry.value.arrayContains) + 1 ELSE 0 >>

FilterShape(filter) == [i \in 1..Len(filter) |-> EntryShape(filter[i])]

\* C6: the statement is parameterized: a request with the same filter shape
\* and other request data (vector, k, collection, filter keys and values)
\* would send the same SQL text.
C6_SameShapeSameText ==
    \A s \in Slots :
        reqs[s].statement # NULL =>
            \A other \in Bodies :
                ("query" \in DOMAIN other
                 /\ FilterShape(Field(other, "filter", <<>>)) = FilterShape(FilterOf(s)))
                => \A collectionId \in {"u1", "u2"} :
                       BuildStatement(other, collectionId).statement.text
                           = reqs[s].statement[1].text

\* C7: a successful response is the array of [document, distance] pairs of the
\* returned rows whose distance and content are non-null, no others; document
\* is {pageContent, metadata, id} of the row, and metadata carries the row's
\* embedding under 'embedding' exactly when includeEmbedding is true.
C7_ResponseShape ==
    \A s \in Slots :
        Succeeded(s) =>
            LET body == ResponseOf(s).body
                kept == KeptRows(s)
            IN /\ Len(body) = Len(kept)
               /\ \A i \in 1..Len(body) :
                      /\ Len(body[i]) = 2
                      /\ DOMAIN body[i][1] = {"pageContent", "metadata", "id"}
                      /\ body[i][1].pageContent = kept[i].document[1]
                      /\ body[i][1].id = kept[i].id
                      /\ body[i][2] = kept[i]._distance[1]
                      /\ IF IncludeEmbeddingOf(s)
                         THEN /\ body[i][1].metadata # NULL
                              /\ DOMAIN body[i][1].metadata[1]
                                     = DOMAIN kept[i].cmetadata[1] \cup {"embedding"}
                              /\ body[i][1].metadata[1].embedding = kept[i].embedding[1]
                              /\ \A key \in DOMAIN kept[i].cmetadata[1] :
                                     body[i][1].metadata[1][key] = kept[i].cmetadata[1][key]
                         ELSE body[i][1].metadata = kept[i].cmetadata

C7_Witness ==
    \E s \in Slots :
        /\ Succeeded(s)
        /\ IncludeEmbeddingOf(s)
        /\ Len(ResponseOf(s).body) >= 1
        /\ Len(ResponseOf(s).body) < Len(reqs[s].documents[1])
        /\ ResponseOf(s).body[1][1].metadata[1].embedding = <<1, 0>>

\* C10: the value bound to :collectionId is the uuid looked up for the
\* requested collection and the value bound to :k is the request's k, for
\* every filter, so every returned row belongs to the requested collection.
C10_CollectionIsolation ==
    \A s \in Slots :
        reqs[s].statement # NULL =>
            /\ Bound(reqs[s].statement[1].replacements, "collectionId")
                   = reqs[s].collectionId[1]
            /\ Bound(reqs[s].statement[1].replacements, "k") = KOf(s)
            /\ Succeeded(s) =>
                   \A d \in 1..Len(reqs[s].documents[1]) :
                       reqs[s].documents[1][d].collection_id = UuidOf(CollectionName(reqs[s]))

\* What request s has seen and done agrees with a memoized list.
MemoizedState ==
    \A s \in Slots :
        reqs[s].pc # "idle" =>
            /\ reqs[s].cacheAtStart # NULL =>
                   /\ "names" \notin reqs[s].issued
                   /\ reqs[s].collections \in {NULL, reqs[s].cacheAtStart}
            /\ (reqs[s].cacheAtStart = NULL /\ reqs[s].failure # "no sequelize")
                   => "names" \in reqs[s].issued

\* A step of a request that arrived after the cache was filled, and a step in
\* which a fetch throws, leave validCollections as it is.
MemoizedStep ==
    \A s \in Slots :
        reqs'[s] # reqs[s] =>
            /\ (reqs[s].cacheAtStart # NULL \/ reqs'[s].cacheAtStart # NULL)
                   => validCollections' = validCollections
            /\ (reqs[s].pc = "fetch" /\ reqs'[s].thrown # NULL)
                   => validCollections' = validCollections

\* C8: once a fetch has filled validCollections, every request that arrives
\* afterwards issues no SELECT name, leaves validCollections unchanged and
\* checks its collection name against the list as cached; a fetch that throws
\* leaves validCollections as it was, and a request that finds it null fetches.
C8_Memoized == [](MemoizedState) /\ [][MemoizedStep]_vars

C8_Witness ==
    \E s \in Slots :
        /\ Answered(s)
        /\ reqs[s].cacheAtStart # NULL
        /\ reqs[s].cacheAtStart[1] # TableNames
        /\ reqs[s].collections = reqs[s].cacheAtStart
        /\ validCollections = reqs[s].cacheAtStart
        /\ \E t \in Slots : Answered(t) /\ reqs[t].failure = "database error"
                            /\ reqs[t].issued = {"names"}

\* The responses the handler gives a request body when it runs alone, from
\* an empty cache to its answer, against the tables as they are.
RunAlone(body) ==
    LET checked == AfterCollections(NewReq(body, NULL), TableNames) IN
    IF checked.pc = "done" THEN { checked.response[1] }
    ELSE LET built == AfterLookup(checked,
                          FirstUuid(SelectUuid(collectionTable, CollectionName(checked))))
         IN IF built.pc = "done" THEN { built.response[1] }
            ELSE IF StatementError(built.statement[1]) # NULL
            THEN { Catch(StatementError(built.statement[1])[1]) }
            ELSE { AfterSearch(built, documents).response[1] :
                       documents \in ExecuteSearch(embeddingTable, built.statement[1]) }

\* C9: with the tables unchanged, under every interleaving of the requests
\* each answered request whose queries the database served has a response it
\* can get when run alone, and validCollections, once any request has
\* obtained the list, equals the table's list of names.
C9_RaceIsBenign ==
    /\ \A s \in Slots :
           (Answered(s) /\ reqs[s].failure \notin {"no sequelize", "database error"})
           => ResponseOf(s) \in RunAlone(reqs[s].body)
    /\ validCollections \in {NULL, Some(TableNames)}
    /\ \A s \in Slots :
           reqs[s].collections # NULL => validCollections = Some(TableNames)

C9_Witness ==
    \E s \in Slots, t \in Slots :
        /\ s # t
        /\ Succeeded(s) /\ "names" \in reqs[s].issued
        /\ Answered(t) /\ "names" \in reqs[t].issued
        /\ ResponseOf(t).status = 404
        /\ validCollections = Some(TableNames)

====
